---- MODULE Spec2Model ----
(***************************************************************************)
(* The workflow engine of the EBR platform (backend/apps/workflow): the    *)
(* state-machine executor, the approval orchestration, the timeout sweep   *)
(* and the definition lifecycle, as a state machine over the database      *)
(* tables the code reads and writes.                                       *)
(*                                                                         *)
(* A request handler runs in two steps, as the views do: it first loads    *)
(* the row(s) it works on (get_object) and builds a WorkflowEngine from    *)
(* them, and then runs the engine method, which is one transaction         *)
(* (@transaction.atomic) working on the loaded copies.  No row is locked   *)
(* (the code never calls select_for_update), so two handlers may both load *)
(* before either runs.                                                     *)
(***************************************************************************)
EXTENDS Integers, Sequences, FiniteSets, TLC

VARIABLES
    definitions,   \* table workflow_definitions: id -> row
    states,        \* table workflow_states: id -> row
    transitions,   \* table workflow_transitions: id -> row
    rules,         \* table workflow_approval_rules: id -> row
    instances,     \* table workflow_instances: sequence of rows, id = index
    history,       \* table workflow_state_history: per instance, in creation order
    requests,      \* table workflow_approval_requests: sequence of rows, id = index
    decisions,     \* table workflow_approval_decisions: per request, in creation order
    now,           \* the clock (hours)
    proc,          \* the request handlers in flight: what each has loaded
    executed,      \* per instance: instance updates made by the calls so far
    approvalRuns,  \* per request: process_approval calls that executed its transition
    races,         \* handlers so far that loaded while another was in flight
    auditFails,    \* whether the audit_logs table rejects an insert
    evalExpression,  \* the expression given to _evaluate
    evalData,        \* the data given to _evaluate
    evalResult       \* what _evaluate returned or raised, once it has run

vars == <<definitions, states, transitions, rules, instances, history,
          requests, decisions, now, proc, executed, approvalRuns,
          races, auditFails, evalExpression, evalData, evalResult>>

catalog == <<definitions, states, transitions, rules>>
evaluator == <<evalExpression, evalData, evalResult>>

-----------------------------------------------------------------------------
(* Bounds of the model.                                                    *)

MaxInstances == 1
MaxHistory == 3
MaxRequests == 1
MaxDecisions == 2
MaxTime == 2
\* Handlers that may start while another handler is in flight.
MaxRaces == 1
\* Nested execute_transition calls the interpreter's stack admits before it
\* raises RecursionError (the model's stand-in for sys.getrecursionlimit()).
MaxDepth == 4

-----------------------------------------------------------------------------
(* Null values of nullable columns.                                        *)

None == "None"      \* a null foreign key or an empty CharField
NoTime == -1        \* a null DateTimeField / PositiveIntegerField

-----------------------------------------------------------------------------
(* The values of the condition language (JSON values and Python objects),  *)
(* each tagged with its kind.  A string is the sequence of the chunks it   *)
(* is the concatenation of (the catalogues use no string that is one of    *)
(* their other strings repeated or concatenated); a number is a reduced    *)
(* fraction; "expr" is a JSON object, which _evaluate reads as an operator *)
(* node {op: args}; "raise" stands for an evaluation ended by an exception.*)

RECURSIVE GCD(_, _)
GCD(a, b) == IF b = 0 THEN a ELSE GCD(b, a % b)

Abs(n) == IF n < 0 THEN -n ELSE n

Null == [k |-> "null", v |-> 0]
Bool(b) == [k |-> "bool", v |-> b]
Number(n, d) ==
    LET g == GCD(Abs(n), Abs(d))
        s == IF d < 0 THEN -1 ELSE 1
    IN [k |-> "num", v |-> <<(s * n) \div g, (s * d) \div g>>]
Integer(n) == Number(n, 1)
Str(chunks) == [k |-> "str", v |-> chunks]
List(items) == [k |-> "list", v |-> items]
Dict(fields) == [k |-> "dict", v |-> fields]
Obj(attrs) == [k |-> "obj", v |-> attrs]
Node(op, args) == [k |-> "expr", v |-> <<op, args>>]
Raise(exc) == [k |-> "raise", v |-> exc]

IsRaise(x) == x.k = "raise"
IsNumeric(x) == x.k \in {"num", "bool"}
AsNum(x) == IF x.k = "bool" THEN (IF x.v THEN <<1, 1>> ELSE <<0, 1>>) ELSE x.v
IsIntegral(x) == IsNumeric(x) /\ AsNum(x)[2] = 1

\* bool(x)
Truthy(x) ==
    CASE x.k = "null" -> FALSE
      [] x.k = "bool" -> x.v
      [] x.k = "num" -> x.v[1] # 0
      [] x.k \in {"str", "list"} -> x.v # <<>>
      [] x.k = "dict" -> DOMAIN x.v # {}
      [] OTHER -> TRUE

\* a == b
RECURSIVE PyEq(_, _)
PyEq(a, b) ==
    IF IsNumeric(a) /\ IsNumeric(b) THEN AsNum(a) = AsNum(b)
    ELSE IF a.k # b.k THEN FALSE
    ELSE IF a.k = "list"
    THEN /\ Len(a.v) = Len(b.v)
         /\ \A i \in 1..Len(a.v) : PyEq(a.v[i], b.v[i])
    ELSE IF a.k = "dict"
    THEN /\ DOMAIN a.v = DOMAIN b.v
         /\ \A key \in DOMAIN a.v : PyEq(a.v[key], b.v[key])
    ELSE a.v = b.v

\* the strings of the catalogues in code-point order
Collation ==
    <<"", ".", "_item", "a", "b", "c", "draft", "in_progress", "mixing",
      "status", "x">>
Rank(s) == CHOOSE i \in 1..Len(Collation) : Collation[i] = s

\* the order of a and b under <, >, <=, >=: "lt", "eq", "gt", or "TypeError"
\* where Python defines none
RECURSIVE Cmp(_, _)
RECURSIVE CmpItems(_, _, _, _)
CmpItems(a, b, i, leaf) ==
    IF i > Len(a) \/ i > Len(b)
    THEN IF Len(a) < Len(b) THEN "lt" ELSE IF Len(a) > Len(b) THEN "gt" ELSE "eq"
    ELSE IF leaf
    THEN IF a[i] = b[i] THEN CmpItems(a, b, i + 1, leaf)
         ELSE IF Rank(a[i]) < Rank(b[i]) THEN "lt" ELSE "gt"
    ELSE IF PyEq(a[i], b[i]) THEN CmpItems(a, b, i + 1, leaf)
         ELSE Cmp(a[i], b[i])
Cmp(a, b) ==
    IF IsNumeric(a) /\ IsNumeric(b)
    THEN LET l == AsNum(a)[1] * AsNum(b)[2]
             r == AsNum(b)[1] * AsNum(a)[2]
         IN IF l < r THEN "lt" ELSE IF l > r THEN "gt" ELSE "eq"
    ELSE IF a.k = "str" /\ b.k = "str" THEN CmpItems(a.v, b.v, 1, TRUE)
    ELSE IF a.k = "list" /\ b.k = "list" THEN CmpItems(a.v, b.v, 1, FALSE)
    ELSE "TypeError"

\* a op b for op in <, >, <=, >=
Compare(op, a, b) ==
    LET c == Cmp(a, b) IN
    IF c = "TypeError" THEN Raise("TypeError")
    ELSE Bool(CASE op = "<" -> c = "lt"
                [] op = ">" -> c = "gt"
                [] op = "<=" -> c \in {"lt", "eq"}
                [] OTHER -> c \in {"gt", "eq"})

\* value in collection
Contains(collection, value) ==
    CASE collection.k = "list" ->
            Bool(\E i \in 1..Len(collection.v) : PyEq(value, collection.v[i]))
      [] collection.k = "str" ->
            IF value.k # "str" THEN Raise("TypeError")
            ELSE Bool(\E i \in 0..Len(collection.v) :
                        /\ i + Len(value.v) <= Len(collection.v)
                        /\ SubSeq(collection.v, i + 1, i + Len(value.v)) = value.v)
      [] collection.k = "dict" ->
            IF value.k \in {"list", "dict", "expr"} THEN Raise("TypeError")
            ELSE Bool(/\ value.k = "str"
                      /\ \E key \in DOMAIN collection.v :
                            value.v = (IF key = "" THEN <<>> ELSE <<key>>))
      [] OTHER -> Raise("TypeError")

\* a + b, a - b, -a, a * b, a / b
Add(a, b) ==
    IF IsNumeric(a) /\ IsNumeric(b)
    THEN Number(AsNum(a)[1] * AsNum(b)[2] + AsNum(b)[1] * AsNum(a)[2],
                AsNum(a)[2] * AsNum(b)[2])
    ELSE Raise("TypeError")
Neg(a) ==
    IF IsNumeric(a) THEN Number(-AsNum(a)[1], AsNum(a)[2])
    ELSE Raise("TypeError")
Sub(a, b) == IF IsNumeric(b) THEN Add(a, Neg(b)) ELSE Raise("TypeError")
RECURSIVE Repeat(_, _)
Repeat(items, n) == IF n <= 0 THEN <<>> ELSE items \o Repeat(items, n - 1)
Mul(a, b) ==
    IF IsNumeric(a) /\ IsNumeric(b)
    THEN Number(AsNum(a)[1] * AsNum(b)[1], AsNum(a)[2] * AsNum(b)[2])
    ELSE IF IsIntegral(a) /\ b.k \in {"str", "list"}
    THEN [b EXCEPT !.v = Repeat(b.v, AsNum(a)[1])]
    ELSE IF IsIntegral(b) /\ a.k \in {"str", "list"}
    THEN [a EXCEPT !.v = Repeat(a.v, AsNum(b)[1])]
    ELSE Raise("TypeError")
Div(a, b) ==
    IF IsNumeric(a) /\ IsNumeric(b)
    THEN IF AsNum(b)[1] = 0 THEN Raise("ZeroDivisionError")
         ELSE Number(AsNum(a)[1] * AsNum(b)[2], AsNum(a)[2] * AsNum(b)[1])
    ELSE Raise("TypeError")

-----------------------------------------------------------------------------
(* Users, their permissions and roles (apps.iam), and the record the       *)
(* workflow is attached to.                                                *)

SystemUser == "system@ebr.local"
Users == {"op", "qa1", "qa2", SystemUser}

\* User.get_all_permissions_set()
UserPermissions(u) ==
    CASE u = "op" -> {"batch.submit"}
      [] OTHER -> {}

\* user.roles.values_list('code', flat=True)
UserRoles(u) ==
    CASE u = "op" -> {"operator"}
      [] u = "qa1" -> {"qa"}
      [] u = "qa2" -> {"qa"}
      [] OTHER -> {}

\* _get_record_data(record): the record's fields
RecordData ==
    Dict([status |-> Str(<<"in_progress">>), stage |-> Str(<<"mixing">>),
          _id |-> Str(<<"1">>), _status |-> Str(<<"in_progress">>)])

-----------------------------------------------------------------------------
(* Rows of the tables.                                                     *)

\* WorkflowDefinition
DefinitionRow(code, status, version, parent) ==
    [code |-> code, status |-> status, version |-> version,
     parent_version |-> parent]

\* WorkflowState (the defaults of the model's fields, then the fields set)
StateRow(wf) ==
    [workflow |-> wf, is_initial |-> FALSE, is_terminal |-> FALSE,
     auto_transition_enabled |-> FALSE, auto_transition_to |-> None,
     timeout_hours |-> NoTime, timeout_action |-> "", order |-> 0]

\* WorkflowTransition.  conditions is null or a JSON logic expression.
TransitionRow(wf, code, from, to, order) ==
    [workflow |-> wf, code |-> code, from_state |-> from, to_state |-> to,
     required_permission |-> "", required_roles |-> {}, conditions |-> Null,
     requires_approval |-> FALSE, is_active |-> TRUE, order |-> order]

\* ApprovalRule
RuleRow(t, type, min) ==
    [transition |-> t, approval_type |-> type, min_approvals |-> min,
     approver_roles |-> {"qa"}, approver_users |-> {},
     escalation_hours |-> NoTime, order |-> 0]

\* WorkflowInstance; the row written by WorkflowInstance.start_workflow
InstanceRow(wf, state, t) ==
    [workflow |-> wf, current_state |-> state, status |-> "active",
     state_entered_at |-> t, state_deadline |-> NoTime]

\* StateHistory
HistoryRow(from, to, t, user, action) ==
    [from_state |-> from, to_state |-> to, transition |-> t,
     triggered_by |-> user, action |-> action]

\* ApprovalRequest
RequestRow(i, t, rule, user, deadline) ==
    [instance |-> i, transition |-> t, approval_rule |-> rule,
     status |-> "pending", requested_by |-> user, deadline |-> deadline]

\* ApprovalDecision
DecisionRow(decision, user) == [decision |-> decision, decided_by |-> user]

-----------------------------------------------------------------------------
(* The catalogue the engine runs on: a batch-release workflow, and a       *)
(* workflow whose two states auto-transition to each other.                *)

ApprovalTypes == {"single", "all", "any", "majority", "sequential"}

\* (approval_type, min_approvals) of the rule of transition "approve"
RuleConfigs ==
    {<<"single", 1>>, <<"any", 2>>, <<"all", 2>>, <<"majority", 2>>,
     <<"sequential", 2>>}

EngineDefinitions ==
    [d \in {"batch", "loop"} |-> DefinitionRow(d, "active", 1, None)]

EngineStates ==
    ( "draft"    :> [StateRow("batch") EXCEPT !.is_initial = TRUE] )
 @@ ( "review"   :> [StateRow("batch") EXCEPT !.timeout_hours = 1,
                                               !.timeout_action = "escalate"] )
 @@ ( "approved" :> [StateRow("batch") EXCEPT !.auto_transition_enabled = TRUE,
                                               !.auto_transition_to = "released",
                                               !.timeout_hours = 1,
                                               !.timeout_action = "transition"] )
 @@ ( "released" :> [StateRow("batch") EXCEPT !.is_terminal = TRUE] )
 @@ ( "ping"     :> [StateRow("loop") EXCEPT !.is_initial = TRUE,
                                              !.auto_transition_enabled = TRUE,
                                              !.auto_transition_to = "pong"] )
 @@ ( "pong"     :> [StateRow("loop") EXCEPT !.is_terminal = TRUE,
                                              !.auto_transition_enabled = TRUE,
                                              !.auto_transition_to = "ping"] )

EngineTransitions ==
    ( "submit"  :> [TransitionRow("batch", "submit", "draft", "review", 0)
                       EXCEPT !.required_permission = "batch.submit",
                              !.conditions =
                                 Node("==", <<Node("var", <<Str(<<"status">>)>>),
                                              Str(<<"in_progress">>)>>)] )
 @@ ( "approve" :> [TransitionRow("batch", "approve", "review", "approved", 0)
                       EXCEPT !.requires_approval = TRUE] )
 @@ ( "return"  :> [TransitionRow("batch", "return", "review", "draft", 1)
                       EXCEPT !.required_roles = {"qa"}] )
 @@ ( "release" :> [TransitionRow("batch", "release", "approved", "released", 0)
                       EXCEPT !.required_roles = {"operator"}] )
 @@ ( "release_timeout" :>
          TransitionRow("batch", "release_timeout", "approved", "released", 1) )
 @@ ( "go"      :> TransitionRow("loop", "go", "ping", "pong", 0) )
 @@ ( "back"    :> TransitionRow("loop", "back", "pong", "ping", 0) )

EngineRules(cfg) == ( "approve_rule" :> RuleRow("approve", cfg[1], cfg[2]) )

-----------------------------------------------------------------------------
(* Queries.                                                                *)

\* QuerySet.first() on a queryset ordered by "order": the rows of S (ids of
\* table tbl) with the least order.  The catalogues of this model leave no
\* ties among the rows the engine selects from.
FirstByOrder(tbl, S) == {x \in S : \A y \in S : tbl[x].order <= tbl[y].order}

\* WorkflowDefinition.get_initial_state: states.filter(is_initial=True).first()
InitialStates(wf) ==
    FirstByOrder(states, {s \in DOMAIN states :
                            states[s].workflow = wf /\ states[s].is_initial})

\* WorkflowDefinition.get_terminal_states
TerminalStates(wf) ==
    {s \in DOMAIN states : states[s].workflow = wf /\ states[s].is_terminal}

\* WorkflowState.get_outgoing_transitions
OutgoingTransitions(s) ==
    {t \in DOMAIN transitions :
        transitions[t].from_state = s /\ transitions[t].is_active}

\* transition.approval_rules.first()
FirstRule(t) ==
    FirstByOrder(rules, {r \in DOMAIN rules : rules[r].transition = t})

-----------------------------------------------------------------------------
(* engine/conditions.py.                                                   *)

\* var_name.split('.'): the segments between the "." chunks
RECURSIVE Split(_)
Split(chunks) ==
    IF \A i \in 1..Len(chunks) : chunks[i] # "." THEN <<chunks>>
    ELSE LET d == CHOOSE i \in 1..Len(chunks) :
                     chunks[i] = "." /\ \A j \in 1..(i - 1) : chunks[j] # "."
         IN <<SubSeq(chunks, 1, d - 1)>>
               \o Split(SubSeq(chunks, d + 1, Len(chunks)))

\* the keys of a dict (attributes of an object) spelt by a segment
Spelt(names, part) ==
    {n \in names : part = (IF n = "" THEN <<>> ELSE <<n>>)}

\* _get_var, lines 199-210: the loop over the parts.  The segment names of
\* the catalogues are no attributes of Python's str, int, bool or list.
RECURSIVE Walk(_, _, _)
Walk(value, parts, default) ==
    IF parts = <<>> THEN value
    ELSE IF value.k \in {"dict", "obj"}
    THEN LET found == Spelt(DOMAIN value.v, Head(parts)) IN
         IF found = {}
         THEN default    \* dict.get gives None; hasattr is false
         ELSE LET next == value.v[CHOOSE n \in found : TRUE] IN
              IF next.k = "null" THEN default
              ELSE Walk(next, Tail(parts), default)
    ELSE default

\* _get_var that takes no default: None wherever _get_var gives the default
GetVarWithoutDefault(data, var_name, default) ==
    IF IsRaise(var_name) THEN var_name
    ELSE IF ~Truthy(var_name) THEN data
    ELSE IF var_name.k # "str" THEN Raise("AttributeError")
    ELSE Walk(data, Split(var_name.v), Null)

\* _get_var
GetVar(data, var_name, default) ==
    IF IsRaise(var_name) THEN var_name
    ELSE IF ~Truthy(var_name) THEN data
    ELSE IF var_name.k # "str" THEN Raise("AttributeError")
    ELSE Walk(data, Split(var_name.v), default)

\* _evaluate, lines 179-181, without the test of the divisor
DivideUnchecked(dividend, divisor) == Div(dividend, divisor)

\* _evaluate, lines 179-181
Divide(dividend, divisor) ==
    IF PyEq(divisor, Integer(0)) THEN Null ELSE Div(dividend, divisor)

\* the operators of _evaluate that evaluate args[0], then args[1]
BinaryOperators == {"==", "!=", "<", ">", "<=", ">=", "in", "contains", "-", "/"}

\* _evaluate on such an operator, given the values of its two arguments
Binary(operator, x, y) ==
    CASE operator = "==" -> Bool(PyEq(x, y))
      [] operator = "!=" -> Bool(~PyEq(x, y))
      [] operator = "in" -> Contains(y, x)
      [] operator = "contains" -> Contains(x, y)
      [] operator = "-" -> Sub(x, y)
      [] operator = "/" -> Divide(x, y)
      [] OTHER -> Compare(operator, x, y)

\* args[i - 1]
Arg(args, i) == IF i <= Len(args) THEN args[i] ELSE Raise("IndexError")

\* _evaluate
RECURSIVE Evaluate(_, _)
RECURSIVE EvalAll(_, _, _)
RECURSIVE EvalAny(_, _, _)
RECURSIVE EvalFold(_, _, _, _, _)
RECURSIVE EvalItems(_, _, _, _, _)

\* all(_evaluate(arg, data) for arg in args), from args[i - 1] on
EvalAll(args, data, i) ==
    IF i > Len(args) THEN Bool(TRUE)
    ELSE LET a == Evaluate(args[i], data) IN
         IF IsRaise(a) THEN a
         ELSE IF ~Truthy(a) THEN Bool(FALSE)
         ELSE EvalAll(args, data, i + 1)

\* any(_evaluate(arg, data) for arg in args), from args[i - 1] on
EvalAny(args, data, i) ==
    IF i > Len(args) THEN Bool(FALSE)
    ELSE LET a == Evaluate(args[i], data) IN
         IF IsRaise(a) THEN a
         ELSE IF Truthy(a) THEN Bool(TRUE)
         ELSE EvalAny(args, data, i + 1)

\* sum(...) and the product loop, from args[i - 1] on with acc so far
EvalFold(op, args, data, i, acc) ==
    IF i > Len(args) THEN acc
    ELSE LET a == Evaluate(args[i], data) IN
         IF IsRaise(a) THEN a
         ELSE LET r == IF op = "+" THEN Add(acc, a) ELSE Mul(acc, a) IN
              IF IsRaise(r) THEN r ELSE EvalFold(op, args, data, i + 1, r)

\* the loops of 'all' and 'some' over array, from its item i on
EvalItems(op, array, template, data, i) ==
    IF i > Len(array) THEN Bool(op = "all")
    ELSE LET r == Evaluate(template,
                           Dict(("_item" :> array[i]) @@ data.v)) IN
         IF IsRaise(r) THEN r
         ELSE IF op = "all" /\ ~Truthy(r) THEN Bool(FALSE)
         ELSE IF op = "some" /\ Truthy(r) THEN Bool(TRUE)
         ELSE EvalItems(op, array, template, data, i + 1)

\* 'missing', from args[i - 1] on
RECURSIVE EvalMissing(_, _, _)
EvalMissing(args, data, i) ==
    IF i > Len(args) THEN Bool(FALSE)
    ELSE LET value == GetVar(data, args[i], Null) IN
         IF IsRaise(value) THEN value
         ELSE IF value.k = "null" \/ PyEq(value, Str(<<>>)) THEN Bool(TRUE)
         ELSE EvalMissing(args, data, i + 1)

Evaluate(expression, data) ==
    IF expression.k # "expr" THEN expression
    ELSE
      LET operator == expression.v[1]
          args == expression.v[2]
          a == Evaluate(Arg(args, 1), data)
          b == Evaluate(Arg(args, 2), data)
      IN CASE operator = "and" -> EvalAll(args, data, 1)
           [] operator = "or" -> EvalAny(args, data, 1)
           [] operator = "not" -> IF IsRaise(a) THEN a ELSE Bool(~Truthy(a))
           [] operator = "var" ->
                 GetVar(data, Arg(args, 1),
                        IF Len(args) > 1 THEN args[2] ELSE Null)
           [] operator = "if" ->
                 IF IsRaise(a) THEN a
                 ELSE IF Truthy(a)
                 THEN (IF Len(args) > 1 THEN b ELSE Bool(TRUE))
                 ELSE (IF Len(args) > 2 THEN Evaluate(args[3], data)
                       ELSE Bool(FALSE))
           [] operator = "missing" -> EvalMissing(args, data, 1)
           [] operator \in {"all", "some"} ->
                 IF IsRaise(a) THEN a
                 ELSE IF Len(args) < 2 THEN Raise("IndexError")
                 ELSE IF a.k # "list" THEN Bool(FALSE)
                 ELSE EvalItems(operator, a.v, args[2], data, 1)
           [] operator = "+" -> EvalFold("+", args, data, 1, Integer(0))
           [] operator = "*" -> EvalFold("*", args, data, 1, Integer(1))
           [] operator = "-" /\ Len(args) = 1 ->
                 IF IsRaise(a) THEN a ELSE Neg(a)
           [] operator \in BinaryOperators ->
                 IF IsRaise(a) THEN a
                 ELSE IF IsRaise(b) THEN b
                 ELSE Binary(operator, a, b)
           [] OTHER -> Null

\* evaluate_conditions
EvaluateConditions(conditions, data) ==
    IF ~Truthy(conditions) THEN Bool(TRUE)
    ELSE Evaluate(conditions, data)

-----------------------------------------------------------------------------
(* Guards.                                                                 *)

\* the exceptions a call may end with
Exceptions ==
    {"TypeError", "ZeroDivisionError", "IndexError", "AttributeError",
     "ValueError", "RecursionError", "DatabaseError"}

\* can_execute, lines 341-346, given what evaluate_conditions came to
ConditionsMet(met) ==
    IF IsRaise(met) THEN <<FALSE, met.v>>
    ELSE IF ~Truthy(met) THEN <<FALSE, "Conditions not met">>
    ELSE <<TRUE, None>>

\* WorkflowTransition.can_execute: <<can_execute, reason>>; when the
\* evaluation of the conditions raises, <<FALSE, the exception>>
CanExecute(t, user) ==
    LET tr == transitions[t] IN
    IF tr.required_permission # ""
       /\ tr.required_permission \notin UserPermissions(user)
    THEN <<FALSE, "Missing required permission">>
    ELSE IF tr.required_roles # {}
            /\ UserRoles(user) \cap tr.required_roles = {}
    THEN <<FALSE, "Missing required role">>
    ELSE IF ~Truthy(tr.conditions) THEN <<TRUE, None>>
    ELSE ConditionsMet(EvaluateConditions(tr.conditions, RecordData))

\* WorkflowEngine.__init__: the engine built from a loaded instance row
Engine(i, row) ==
    [id |-> i, instance |-> row, workflow |-> row.workflow,
     current_state |-> row.current_state,
     appended |-> <<>>,    \* StateHistory rows created by the call
     saves |-> 0,          \* instance.save() calls made by the call
     overflow |-> FALSE,   \* the call ran into the interpreter's stack limit
     raised |-> None]      \* the exception that ended the call otherwise

\* can_execute_transition without the check of the current state
CanExecuteTransitionAnyState(e, t, user) ==
    IF transitions[t].workflow # e.workflow
    THEN <<FALSE, "Transition not part of this workflow">>
    ELSE CanExecute(t, user)

\* WorkflowEngine.can_execute_transition: <<can_execute, reason>>
CanExecuteTransition(e, t, user) ==
    IF transitions[t].from_state # e.current_state
    THEN <<FALSE, "Transition not available from current state">>
    ELSE IF transitions[t].workflow # e.workflow
    THEN <<FALSE, "Transition not part of this workflow">>
    ELSE CanExecute(t, user)

-----------------------------------------------------------------------------
(* WorkflowEngine.execute_transition.                                      *)

\* state_deadline that is never cleared: a state without a timeout gets the
\* time it is entered at
DeadlineNeverCleared(s, time) ==
    IF states[s].timeout_hours # NoTime /\ states[s].timeout_hours # 0
    THEN time + states[s].timeout_hours
    ELSE time

\* state_deadline for a state entered at `time`
DeadlineFor(s, time) ==
    IF states[s].timeout_hours # NoTime /\ states[s].timeout_hours # 0
    THEN time + states[s].timeout_hours
    ELSE NoTime

\* ApplyTransition without StateHistory.objects.create
ApplyTransitionNoHistory(e, t, user, time) ==
    LET new == transitions[t].to_state IN
    [e EXCEPT
        !.instance = [@ EXCEPT
            !.current_state = new,
            !.state_entered_at = time,
            !.state_deadline = DeadlineFor(new, time),
            !.status = IF states[new].is_terminal THEN "completed" ELSE @],
        !.saves = @ + 1,
        !.current_state = new]

\* execute_transition, lines 165-206: the history row, the instance update
\* and its save, and the engine's own current_state
ApplyTransition(e, t, user, time) ==
    LET new == transitions[t].to_state IN
    [e EXCEPT
        !.appended = Append(@, HistoryRow(e.current_state, new, t, user,
                                          transitions[t].code)),
        !.instance = [@ EXCEPT
            !.current_state = new,
            !.state_entered_at = time,
            !.state_deadline = DeadlineFor(new, time),
            !.status = IF states[new].is_terminal THEN "completed" ELSE @],
        !.saves = @ + 1,
        !.current_state = new]

\* _check_auto_transition: the transition it selects from the engine's state
AutoTransitions(e) ==
    FirstByOrder(transitions,
        {t \in DOMAIN transitions :
            /\ transitions[t].workflow = e.workflow
            /\ transitions[t].from_state = e.current_state
            /\ transitions[t].to_state = states[e.current_state].auto_transition_to
            /\ transitions[t].is_active})

\* execute_transition from line 165 on, with the auto-transitions it chains
\* through _check_auto_transition (which calls execute_transition again, with
\* the same user and skip_approval).  depth counts the nested calls; the chain
\* has no bound of its own and ends, in a cycle, when the stack is exhausted.
RECURSIVE ExecuteChain(_, _, _, _, _)

\* _check_auto_transition, lines 283-287: the nested call for the selected
\* transition a, whose guard came to `can`
AutoChain(e1, a, can, user, time, depth) ==
    IF can[1] THEN ExecuteChain(e1, a, user, time, depth + 1)
    ELSE IF can[2] \in Exceptions THEN [e1 EXCEPT !.raised = can[2]]
    ELSE e1

ExecuteChain(e, t, user, time, depth) ==
    IF depth > MaxDepth THEN [e EXCEPT !.overflow = TRUE]
    ELSE
      LET e1 == ApplyTransition(e, t, user, time)
          new == states[e1.current_state]
          auto == AutoTransitions(e1)
      IN IF auditFails     \* AuditLog.log_action raises, lines 211-221
         THEN [e1 EXCEPT !.raised = "DatabaseError"]
         ELSE IF /\ new.auto_transition_enabled
                 /\ new.auto_transition_to # None
                 /\ auto # {}
         THEN LET a == CHOOSE x \in auto : TRUE IN
              AutoChain(e1, a, CanExecuteTransition(e1, a, user),
                        user, time, depth)
         ELSE e1

\* execute_transition, lines 165-227, once the chain of the transition and
\* its auto-transitions has run into the engine e1
Completed(e, e1) ==
    IF e1.overflow
    THEN [outcome |-> "RecursionError", ok |-> FALSE,
          msg |-> "maximum recursion depth exceeded",
          effect |-> "none", engine |-> e]
    ELSE IF e1.raised # None
    THEN [outcome |-> e1.raised, ok |-> FALSE, msg |-> e1.raised,
          effect |-> "none", engine |-> e]
    ELSE [outcome |-> "returned", ok |-> TRUE, msg |-> "Transitioned",
          effect |-> "moved", engine |-> e1]

\* execute_transition that executes a transition requiring approval when it
\* finds no approval rule
RunTransitionNoRuleExecutes(e, t, user, skip_approval, time) ==
    LET can == CanExecuteTransition(e, t, user) IN
    IF ~can[1]
    THEN [outcome |-> IF can[2] \in Exceptions THEN can[2] ELSE "returned",
          ok |-> FALSE, msg |-> can[2], effect |-> "none", engine |-> e]
    ELSE IF transitions[t].requires_approval /\ ~skip_approval
            /\ FirstRule(t) # {}
    THEN [outcome |-> "returned", ok |-> TRUE,
          msg |-> "Approval request created",
          effect |-> "request", engine |-> e]
    ELSE Completed(e, ExecuteChain(e, t, user, time, 1))

\* execute_transition that takes every call as if skip_approval were set
RunTransitionNoApproval(e, t, user, skip_approval, time) ==
    LET can == CanExecuteTransition(e, t, user)
        e1 == ExecuteChain(e, t, user, time, 1)
    IN IF ~can[1]
       THEN [outcome |-> "returned", ok |-> FALSE, msg |-> can[2],
             effect |-> "none", engine |-> e]
       ELSE IF e1.overflow
       THEN [outcome |-> "RecursionError", ok |-> FALSE,
             msg |-> "maximum recursion depth exceeded",
             effect |-> "none", engine |-> e]
       ELSE [outcome |-> "returned", ok |-> TRUE, msg |-> "Transitioned",
             effect |-> "moved", engine |-> e1]

\* execute_transition, lines 155-227, once can_execute_transition has come
\* to `can`
Guarded(e, t, can, user, skip_approval, time) ==
    IF ~can[1]
    THEN [outcome |-> IF can[2] \in Exceptions THEN can[2] ELSE "returned",
          ok |-> FALSE, msg |-> can[2], effect |-> "none", engine |-> e]
    ELSE IF transitions[t].requires_approval /\ ~skip_approval
    THEN IF FirstRule(t) = {}
         THEN [outcome |-> "ValueError", ok |-> FALSE,
               msg |-> "Transition requires approval but has no approval rules",
               effect |-> "none", engine |-> e]
         ELSE [outcome |-> "returned", ok |-> TRUE,
               msg |-> "Approval request created",
               effect |-> "request", engine |-> e]
    ELSE Completed(e, ExecuteChain(e, t, user, time, 1))

\* execute_transition as a whole: what it returns or raises, its effect
\* ("none", "request": an ApprovalRequest is to be created, "moved": the
\* instance row and the history rows of `engine` are written), and the
\* engine after it.  An exception leaves the transaction rolled back.
RunTransition(e, t, user, skip_approval, time) ==
    Guarded(e, t, CanExecuteTransition(e, t, user), user, skip_approval, time)

\* _create_approval_request: the row it creates
NewRequest(e, t, user, time) ==
    LET rule == CHOOSE r \in FirstRule(t) : TRUE IN
    RequestRow(e.id, t, rule, user,
               IF rules[rule].escalation_hours # NoTime
                  /\ rules[rule].escalation_hours # 0
               THEN time + rules[rule].escalation_hours ELSE NoTime)

-----------------------------------------------------------------------------
(* Request handlers.                                                       *)

\* Two handlers may be in flight at once.  They are interchangeable, so the
\* second slot is taken only while the first is.
Procs == {"p1", "p2"}
Other(p) == IF p = "p1" THEN "p2" ELSE "p1"
Overlaps(p) == proc[Other(p)].pc # "idle"
Free(p) ==
    /\ proc[p].pc = "idle"
    /\ p = "p2" => Overlaps(p)
    /\ Overlaps(p) => races < MaxRaces

\* handler p loads what pr says
Load(p, pr) ==
    /\ Free(p)
    /\ proc' = [proc EXCEPT ![p] = pr]
    /\ races' = IF Overlaps(p) THEN races + 1 ELSE races

\* the users who call the transition endpoint, and those who decide approvals
Actors == {"op", "qa1"}
Deciders == {"qa1", "qa2"}

NoRow == InstanceRow(None, None, NoTime)

\* a handler that has loaded nothing
IdleProc ==
    [pc |-> "idle", op |-> "", inst |-> 0, t |-> None, user |-> None,
     req |-> 0, decision |-> "", row |-> NoRow, req_status |-> "", seen |-> 0]

-----------------------------------------------------------------------------
(* Initial state: the catalogue loaded, no instance started.               *)

Init ==
    /\ definitions = EngineDefinitions
    /\ states = EngineStates
    /\ transitions = EngineTransitions
    /\ \E cfg \in RuleConfigs : rules = EngineRules(cfg)
    /\ instances = <<>>
    /\ history = <<>>
    /\ requests = <<>>
    /\ decisions = <<>>
    /\ now = 0
    /\ proc = [p \in Procs |-> IdleProc]
    /\ executed = <<>>
    /\ approvalRuns = <<>>
    /\ races = 0
    /\ auditFails = FALSE
    /\ evalExpression = Null
    /\ evalData = Null
    /\ evalResult = Null

-----------------------------------------------------------------------------
(* Operations.                                                             *)

\* WorkflowEngine.start_workflow / WorkflowInstance.start_workflow
StartWorkflow(wf, user) ==
    /\ Len(instances) < MaxInstances
    /\ InitialStates(wf) # {}        \* else ValueError, nothing created
    /\ LET s == CHOOSE x \in InitialStates(wf) : TRUE IN
          /\ instances' = Append(instances, InstanceRow(wf, s, now))
          /\ history' = Append(history,
                 <<HistoryRow(None, s, None, user, "workflow_started")>>)
          /\ executed' = Append(executed, 0)
    /\ UNCHANGED <<catalog, auditFails, evaluator, requests, decisions, now, proc, approvalRuns, races>>

\* WorkflowInstanceViewSet.transition, lines 52-67: the handler loads the
\* instance and the transition and builds the engine
TransitionLoad(p, i, t, user) ==
    /\ i \in 1..Len(instances)
    /\ Len(history[i]) < MaxHistory
    /\ transitions[t].requires_approval => Len(requests) < MaxRequests
    /\ Load(p, [IdleProc EXCEPT !.pc = "loaded", !.op = "transition",
                                !.inst = i, !.t = t, !.user = user,
                                !.row = instances[i],
                                !.seen = Len(history[i])])
    /\ UNCHANGED <<catalog, auditFails, evaluator, instances, history, requests, decisions, now,
                   executed, approvalRuns>>

\* the writes of a call that executed transitions: the saved instance row
\* and the created history rows
WriteMoved(res) ==
    LET e == res.engine IN
    /\ instances' = [instances EXCEPT ![e.id] = e.instance]
    /\ history' = [history EXCEPT ![e.id] = @ \o e.appended]
    /\ executed' = [executed EXCEPT ![e.id] = @ + e.saves]

\* the execute_transition call of handler p (transition view, lines 67-72)
TransitionCall(p) ==
    RunTransition(Engine(proc[p].inst, proc[p].row), proc[p].t, proc[p].user,
                  FALSE, now)

\* WorkflowInstanceViewSet.transition, lines 68-72: engine.execute_transition
ExecuteTransition(p) ==
    /\ proc[p].pc = "loaded"
    /\ proc[p].op = "transition"
    /\ LET pr == proc[p]
           res == TransitionCall(p)
       IN CASE res.effect = "moved" ->
                 /\ WriteMoved(res)
                 /\ UNCHANGED <<requests, decisions, approvalRuns>>
            [] res.effect = "request" ->
                 /\ requests' = Append(requests,
                        NewRequest(res.engine, pr.t, pr.user, now))
                 /\ decisions' = Append(decisions, <<>>)
                 /\ approvalRuns' = Append(approvalRuns, 0)
                 /\ UNCHANGED <<instances, history, executed>>
            [] OTHER ->
                 UNCHANGED <<instances, history, executed, requests,
                             decisions, approvalRuns>>
    /\ proc' = [proc EXCEPT ![p] = IdleProc]
    /\ UNCHANGED <<catalog, auditFails, evaluator, now, races>>

\* ApprovalRequestViewSet.decide, lines 160-181: the handler loads the
\* request with its instance, checks that the user may approve (403
\* otherwise) and builds the engine
DecideLoad(p, r, user, decision) ==
    /\ r \in 1..Len(requests)
    /\ Len(decisions[r]) < MaxDecisions
    /\ LET rule == rules[requests[r].approval_rule] IN
          \/ UserRoles(user) \cap rule.approver_roles # {}
          \/ user \in rule.approver_users
    /\ Load(p, [IdleProc EXCEPT !.pc = "loaded", !.op = "decide",
                                !.req = r, !.user = user,
                                !.decision = decision,
                                !.inst = requests[r].instance,
                                !.t = requests[r].transition,
                                !.row = instances[requests[r].instance],
                                !.req_status = requests[r].status,
                                !.seen = Len(history[requests[r].instance])])
    /\ UNCHANGED <<catalog, auditFails, evaluator, instances, history, requests, decisions, now,
                   executed, approvalRuns>>

\* process_approval, lines 306-311
Count(ds, decision) ==
    Cardinality({k \in DOMAIN ds : ds[k].decision = decision})

\* the requirement read off min_approvals for every approval type
PolicyByMinApprovals(rule, approved_count) ==
    approved_count >= rule.min_approvals

\* process_approval, lines 319-353: whether the rule's requirement is met
\* by approved_count approvals
PolicySatisfied(rule, approved_count) ==
    CASE rule.approval_type = "single" -> approved_count >= 1
      [] rule.approval_type = "all" -> approved_count >= rule.min_approvals
      [] rule.approval_type = "any" -> approved_count >= 1
      [] OTHER -> FALSE

\* the decisions of handler p's request once its own is recorded (line 295)
DecisionsWith(p) ==
    Append(decisions[proc[p].req], DecisionRow(proc[p].decision, proc[p].user))

\* process_approval with rejections weighed against approvals
ApprovalBranchVote(p) ==
    IF proc[p].req_status # "pending" THEN "not_pending"
    ELSE IF Count(DecisionsWith(p), "rejected")
              > Count(DecisionsWith(p), "approved") THEN "rejected"
    ELSE IF PolicySatisfied(rules[requests[proc[p].req].approval_rule],
                            Count(DecisionsWith(p), "approved"))
    THEN "execute"
    ELSE "recorded"

\* process_approval without the test of the request's status
ApprovalBranchAnyStatus(p) ==
    IF Count(DecisionsWith(p), "rejected") > 0 THEN "rejected"
    ELSE IF PolicySatisfied(rules[requests[proc[p].req].approval_rule],
                            Count(DecisionsWith(p), "approved"))
    THEN "execute"
    ELSE "recorded"

\* what process_approval does for handler p: "not_pending" (line 292),
\* "rejected" (313-317), "execute" (the policy is satisfied: 319-353) or
\* "recorded" (355)
ApprovalBranch(p) ==
    IF proc[p].req_status # "pending" THEN "not_pending"
    ELSE IF Count(DecisionsWith(p), "rejected") > 0 THEN "rejected"
    ELSE IF PolicySatisfied(rules[requests[proc[p].req].approval_rule],
                            Count(DecisionsWith(p), "approved"))
    THEN "execute"
    ELSE "recorded"

\* the execute_transition call of process_approval made as the user who
\* decides instead of the requester
ApprovalCallAsDecider(p) ==
    RunTransition(Engine(proc[p].inst, proc[p].row),
                  requests[proc[p].req].transition, proc[p].user, TRUE, now)

\* the execute_transition call process_approval makes for handler p: the
\* request's transition, as the original requester, approval skipped
ApprovalCall(p) ==
    RunTransition(Engine(proc[p].inst, proc[p].row),
                  requests[proc[p].req].transition,
                  requests[proc[p].req].requested_by, TRUE, now)

\* ApprovalRequestViewSet.decide, lines 182-187: engine.process_approval.
\* <<success, message>> is ApprovalResult(p).
ProcessApproval(p) ==
    /\ proc[p].pc = "loaded"
    /\ proc[p].op = "decide"
    /\ LET r == proc[p].req
           branch == ApprovalBranch(p)
           run == ApprovalCall(p)
       IN CASE branch = "not_pending" ->
                 UNCHANGED <<instances, history, executed, requests,
                             decisions, approvalRuns>>
            [] branch = "rejected" ->
                 /\ decisions' = [decisions EXCEPT ![r] = DecisionsWith(p)]
                 /\ requests' = [requests EXCEPT ![r].status = "rejected"]
                 /\ UNCHANGED <<instances, history, executed, approvalRuns>>
            [] branch = "execute" /\ run.outcome # "returned" ->
                 \* execute_transition raised: the transaction is rolled back
                 UNCHANGED <<instances, history, executed, requests,
                             decisions, approvalRuns>>
            [] branch = "execute" /\ run.outcome = "returned" ->
                 /\ decisions' = [decisions EXCEPT ![r] = DecisionsWith(p)]
                 /\ requests' = [requests EXCEPT ![r].status = "approved"]
                 /\ IF run.effect = "moved"
                    THEN /\ WriteMoved(run)
                         /\ approvalRuns' = [approvalRuns EXCEPT ![r] = @ + 1]
                    ELSE UNCHANGED <<instances, history, executed, approvalRuns>>
            [] branch = "recorded" ->
                 /\ decisions' = [decisions EXCEPT ![r] = DecisionsWith(p)]
                 /\ UNCHANGED <<instances, history, executed, requests,
                                approvalRuns>>
    /\ proc' = [proc EXCEPT ![p] = IdleProc]
    /\ UNCHANGED <<catalog, auditFails, evaluator, now, races>>

\* process_approval's return value <<success, message>>
ApprovalResult(p) ==
    CASE ApprovalBranch(p) = "not_pending" ->
            <<FALSE, "Approval request is not pending">>
      [] ApprovalBranch(p) = "rejected" -> <<TRUE, "Approval request rejected">>
      [] ApprovalBranch(p) = "execute" ->
            <<ApprovalCall(p).ok, ApprovalCall(p).msg>>
      [] OTHER -> <<TRUE, "Decision recorded, waiting for more approvals">>

-----------------------------------------------------------------------------
(* The timeout sweep.                                                      *)

\* check_timed_out_states, lines 419-423: the instances it selects
TimedOut ==
    {i \in 1..Len(instances) :
        /\ instances[i].status = "active"
        /\ instances[i].state_deadline # NoTime
        /\ instances[i].state_deadline < now}

\* codes that contain 'timeout' (code__contains='timeout')
TimeoutCodes == {"release_timeout", "finish_timeout", "close_timeout"}

\* _handle_timeout, lines 453-458: the timeout transition of the engine's state
TimeoutTransitions(e) ==
    FirstByOrder(transitions,
        {t \in DOMAIN transitions :
            /\ transitions[t].workflow = e.workflow
            /\ transitions[t].from_state = e.current_state
            /\ transitions[t].code \in TimeoutCodes
            /\ transitions[t].is_active})

\* _handle_timeout for instance i, timeout action 'transition': the result
\* of the execute_transition call it makes, if it makes one
TimeoutRun(i) ==
    LET e == Engine(i, instances[i]) IN
    IF /\ states[e.current_state].timeout_action = "transition"
       /\ TimeoutTransitions(e) # {}
       /\ SystemUser \in Users
    THEN RunTransition(e, CHOOSE t \in TimeoutTransitions(e) : TRUE,
                       SystemUser, TRUE, now)
    ELSE [outcome |-> "returned", ok |-> FALSE, msg |-> "", effect |-> "none",
          engine |-> e]

\* The instances the loop of check_timed_out_states handles: it takes them
\* newest first (Meta.ordering -started_at) and an exception ends it.
Handled ==
    {i \in TimedOut :
        \A k \in TimedOut : k > i => TimeoutRun(k).outcome = "returned"}

\* _handle_timeout escalating the pending requests of every instance
EscalatedOfAnyInstance ==
    {r \in 1..Len(requests) :
        /\ \E i \in Handled :
              states[instances[i].current_state].timeout_action = "escalate"
        /\ requests[r].status = "pending"}

\* _handle_timeout, lines 438-445: the requests it escalates
Escalated ==
    {r \in 1..Len(requests) :
        /\ requests[r].instance \in Handled
        /\ states[instances[requests[r].instance].current_state]
              .timeout_action = "escalate"
        /\ requests[r].status = "pending"}

\* WorkflowEngine.check_timed_out_states
CheckTimedOutStates ==
    /\ TimedOut # {}
    /\ instances' = [i \in 1..Len(instances) |->
           IF i \in Handled /\ TimeoutRun(i).effect = "moved"
           THEN TimeoutRun(i).engine.instance ELSE instances[i]]
    /\ history' = [i \in 1..Len(instances) |->
           IF i \in Handled /\ TimeoutRun(i).effect = "moved"
           THEN history[i] \o TimeoutRun(i).engine.appended ELSE history[i]]
    /\ executed' = [i \in 1..Len(instances) |->
           IF i \in Handled /\ TimeoutRun(i).effect = "moved"
           THEN executed[i] + TimeoutRun(i).engine.saves ELSE executed[i]]
    /\ requests' = [r \in 1..Len(requests) |->
           IF r \in Escalated
           THEN [requests[r] EXCEPT !.status = "escalated"] ELSE requests[r]]
    /\ UNCHANGED <<catalog, auditFails, evaluator, decisions, now, proc, approvalRuns, races>>

\* time passes
Tick ==
    /\ now < MaxTime
    /\ now' = now + 1
    /\ UNCHANGED <<catalog, auditFails, evaluator, instances, history, requests, decisions, proc,
                   executed, approvalRuns, races>>

-----------------------------------------------------------------------------
(* The engine's specification.                                             *)

Next ==
    \/ \E wf \in DOMAIN definitions : StartWorkflow(wf, "op")
    \/ \E p \in Procs, i \in 1..Len(instances), t \in DOMAIN transitions,
          user \in Actors : TransitionLoad(p, i, t, user)
    \/ \E p \in Procs : ExecuteTransition(p)
    \/ \E p \in Procs, r \in 1..Len(requests), user \in Deciders,
          decision \in {"approved", "rejected"} : DecideLoad(p, r, user, decision)
    \/ \E p \in Procs : ProcessApproval(p)
    \/ CheckTimedOutStates
    \/ Tick

Spec == Init /\ [][Next]_vars

-----------------------------------------------------------------------------
(* The engine on a second catalogue, with the failures of a call: a        *)
(* workflow whose transitions fail each check of the guard, a transition   *)
(* that requires approval with or without a rule, a state with a timeout   *)
(* transition, and an audit table that may reject inserts.                 *)

HoldDefinitions ==
    [d \in {"hold", "other"} |-> DefinitionRow(d, "active", 1, None)]

HoldStates ==
    ( "new"     :> [StateRow("hold") EXCEPT !.is_initial = TRUE] )
 @@ ( "waiting" :> [StateRow("hold") EXCEPT !.timeout_hours = 1,
                                             !.timeout_action = "transition"] )
 @@ ( "checked" :> StateRow("hold") )
 @@ ( "done"    :> [StateRow("hold") EXCEPT !.is_terminal = TRUE] )

HoldTransitions ==
    ( "open"    :> TransitionRow("hold", "open", "new", "waiting", 0) )
 @@ ( "verify"  :> [TransitionRow("hold", "verify", "new", "checked", 1)
                       EXCEPT !.requires_approval = TRUE,
                              !.required_roles = {"qa"}] )
 @@ ( "gauge"   :> [TransitionRow("hold", "gauge", "new", "waiting", 2)
                       EXCEPT !.conditions =
                                 Node(">", <<Node("var", <<Str(<<"x">>)>>),
                                             Integer(90)>>)] )
 @@ ( "stale"   :> [TransitionRow("hold", "stale", "new", "waiting", 3)
                       EXCEPT !.conditions =
                                 Node("==", <<Node("var", <<Str(<<"x">>)>>),
                                              Str(<<"a">>)>>)] )
 @@ ( "foreign" :> TransitionRow("other", "foreign", "new", "waiting", 4) )
 @@ ( "finish"  :> [TransitionRow("hold", "finish", "waiting", "done", 0)
                       EXCEPT !.required_permission = "batch.submit"] )
 @@ ( "finish_timeout" :>
          TransitionRow("hold", "finish_timeout", "waiting", "done", 1) )

\* the rule of transition "verify", if it has one
HoldRules(has_rule) ==
    IF has_rule THEN ( "verify_rule" :> RuleRow("verify", "single", 1) )
    ELSE [r \in {} |-> RuleRow(None, "single", 1)]

InitHold ==
    /\ definitions = HoldDefinitions
    /\ states = HoldStates
    /\ transitions = HoldTransitions
    /\ \E has_rule \in BOOLEAN : rules = HoldRules(has_rule)
    /\ instances = <<>>
    /\ history = <<>>
    /\ requests = <<>>
    /\ decisions = <<>>
    /\ now = 0
    /\ proc = [p \in Procs |-> IdleProc]
    /\ executed = <<>>
    /\ approvalRuns = <<>>
    /\ races = 0
    /\ auditFails \in BOOLEAN
    /\ evalExpression = Null
    /\ evalData = Null
    /\ evalResult = Null

SpecHold == InitHold /\ [][Next]_vars

-----------------------------------------------------------------------------
(* The catalogue's specification: the lifecycle of a definition whose      *)
(* states carry any combination of the is_initial and is_terminal flags    *)
(* (no constraint of the schema relates the flags of a workflow's states). *)

CatalogStates == {"s1", "s2", "s3"}
DefinitionStatus == {"draft", "active", "deprecated", "archived"}

InitCatalog ==
    /\ definitions = ("wf" :> DefinitionRow("wf", "draft", 1, None))
    /\ \E ini \in SUBSET CatalogStates, term \in SUBSET CatalogStates :
          states = [s \in CatalogStates |->
                       [StateRow("wf") EXCEPT
                           !.is_initial = s \in ini,
                           !.is_terminal = s \in term,
                           !.auto_transition_enabled = (s = "s2"),
                           !.auto_transition_to =
                               IF s = "s2" THEN "s3" ELSE None]]
    /\ transitions =
            ( "t1" :> [TransitionRow("wf", "t1", "s1", "s2", 0)
                          EXCEPT !.requires_approval = TRUE] )
         @@ ( "t2" :> TransitionRow("wf", "t2", "s2", "s3", 0) )
    /\ rules = ( "r1" :> RuleRow("t1", "single", 1) )
    /\ instances = <<>>
    /\ history = <<>>
    /\ requests = <<>>
    /\ decisions = <<>>
    /\ now = 0
    /\ proc = [p \in Procs |-> IdleProc]
    /\ executed = <<>>
    /\ approvalRuns = <<>>
    /\ races = 0
    /\ auditFails = FALSE
    /\ evalExpression = Null
    /\ evalData = Null
    /\ evalResult = Null

engine == <<instances, history, requests, decisions, now, proc, executed,
            approvalRuns, races, auditFails>>

\* WorkflowDefinitionViewSet.activate, the call that succeeds
Activate(w) ==
    /\ definitions[w].status = "draft"
    /\ \E s \in DOMAIN states : states[s].workflow = w /\ states[s].is_initial
    /\ \E s \in DOMAIN states : states[s].workflow = w /\ states[s].is_terminal
    /\ definitions' = [definitions EXCEPT ![w].status = "active"]
    /\ UNCHANGED <<states, transitions, rules, engine, evaluator>>

\* WorkflowDefinitionViewSet.deprecate, the call that succeeds
Deprecate(w) ==
    /\ definitions[w].status = "active"
    /\ definitions' = [definitions EXCEPT ![w].status = "deprecated"]
    /\ UNCHANGED <<states, transitions, rules, engine, evaluator>>

\* PATCH /workflows/{id}/ (ModelViewSet.partial_update): status is a
\* writable field of WorkflowDefinitionSerializer
PartialUpdate(w, status) ==
    /\ definitions[w].status # status
    /\ definitions' = [definitions EXCEPT ![w].status = status]
    /\ UNCHANGED <<states, transitions, rules, engine, evaluator>>

\* the key of the row that new_version creates as the copy of row id
NewId(id) == id \o "'"

\* WorkflowDefinition.create_new_version: the row it builds, not yet saved
CreateNewVersion(w) ==
    DefinitionRow(definitions[w].code, "draft", definitions[w].version + 1, w)

\* new_workflow.save(), line 115: the insert raises IntegrityError when a row
\* of the table has the code already (code is unique=True)
SaveRaises(row) ==
    \E d \in DOMAIN definitions : definitions[d].code = row.code

\* new_version, lines 118-136: the states created, each with the fields the
\* call passes on (auto_transition_to is not among them and keeps its
\* default)
CopiedStates(w) ==
    LET old == {s \in DOMAIN states : states[s].workflow = w} IN
    [n \in {NewId(s) : s \in old} |->
        LET s == CHOOSE x \in old : NewId(x) = n IN
        [states[s] EXCEPT !.workflow = NewId(w), !.auto_transition_to = None]]

\* new_version, lines 138-159: the transitions created, their endpoints
\* mapped by state_mapping
CopiedTransitions(w) ==
    LET old == {t \in DOMAIN transitions : transitions[t].workflow = w} IN
    [n \in {NewId(t) : t \in old} |->
        LET t == CHOOSE x \in old : NewId(x) = n IN
        [transitions[t] EXCEPT !.workflow = NewId(w),
                               !.from_state = NewId(@),
                               !.to_state = NewId(@)]]

\* WorkflowDefinitionViewSet.new_version: how the call ends and the tables
\* after it (no ApprovalRule is created)
NewVersionResult(w) ==
    IF SaveRaises(CreateNewVersion(w))
    THEN [outcome |-> "IntegrityError", definitions |-> definitions,
          states |-> states, transitions |-> transitions, rules |-> rules]
    ELSE [outcome |-> "created",
          definitions |-> (NewId(w) :> CreateNewVersion(w)) @@ definitions,
          states |-> CopiedStates(w) @@ states,
          transitions |-> CopiedTransitions(w) @@ transitions,
          rules |-> rules]

\* POST /workflows/{id}/new_version/
NewVersion(w) ==
    /\ NewId(w) \notin DOMAIN definitions
    /\ definitions' = NewVersionResult(w).definitions
    /\ states' = NewVersionResult(w).states
    /\ transitions' = NewVersionResult(w).transitions
    /\ rules' = NewVersionResult(w).rules
    /\ UNCHANGED <<engine, evaluator>>

NextCatalog ==
    \/ \E w \in DOMAIN definitions : Activate(w)
    \/ \E w \in DOMAIN definitions : Deprecate(w)
    \/ \E w \in DOMAIN definitions, status \in DefinitionStatus :
          PartialUpdate(w, status)
    \/ \E w \in DOMAIN definitions : NewVersion(w)

SpecCatalog == InitCatalog /\ [][NextCatalog]_vars

-----------------------------------------------------------------------------
(* The evaluator's specification: _evaluate applied to one var node or one *)
(* arithmetic node and one record snapshot, drawn from the sets below.     *)

\* no evaluation has been made
Unevaluated == [k |-> "unset", v |-> 0]

\* a dict without keys
EmptyDict == Dict([key \in {} |-> Null])

\* the paths of the var nodes: "", "a", "b", "a.b", "a.c", "a.b.c", "a."
Paths ==
    {<<>>, <<"a">>, <<"b">>, <<"a", ".", "b">>, <<"a", ".", "c">>,
     <<"a", ".", "b", ".", "c">>, <<"a", ".">>}

\* the defaults given to the var nodes
Defaults == {Null, Integer(5)}

\* record snapshots: absent keys, values of each type at "a" and at "a.b"
Snapshots ==
    {EmptyDict,
     Dict([a |-> EmptyDict]),
     Dict([a |-> Null]),
     Dict([a |-> Integer(7)]),
     Dict([a |-> Str(<<"x">>)]),
     Dict([a |-> List(<<Integer(1)>>)]),
     Dict([a |-> Dict([b |-> Integer(2)])]),
     Dict([a |-> Dict([b |-> Null])]),
     Dict([a |-> Dict([b |-> Dict([c |-> Str(<<"x">>)])])]),
     Dict([a |-> Obj([b |-> Integer(3)]), b |-> Bool(FALSE)])}

VarNodes ==
    {Node("var", <<Str(path)>>) : path \in Paths}
        \cup {Node("var", <<Str(path), default>>) :
                 path \in Paths, default \in Defaults}

\* the operands of the arithmetic nodes: numbers, booleans, null, strings,
\* a list, and variables
Operands ==
    {Integer(0), Integer(1), Integer(10), Integer(-3), Number(1, 2),
     Bool(FALSE), Bool(TRUE), Null, Str(<<"x">>), Str(<<>>),
     List(<<Integer(1)>>),
     Node("var", <<Str(<<"a">>)>>), Node("var", <<Str(<<"a", ".", "b">>)>>)}

ArithmeticOperators == {"+", "-", "*", "/"}

ArithmeticNodes ==
    {Node(op, <<x, y>>) : op \in ArithmeticOperators, x \in Operands,
                          y \in Operands}
        \cup {Node("-", <<x>>) : x \in Operands}

InitEval ==
    /\ definitions = EngineDefinitions
    /\ states = EngineStates
    /\ transitions = EngineTransitions
    /\ rules = EngineRules(<<"single", 1>>)
    /\ instances = <<>>
    /\ history = <<>>
    /\ requests = <<>>
    /\ decisions = <<>>
    /\ now = 0
    /\ proc = [p \in Procs |-> IdleProc]
    /\ executed = <<>>
    /\ approvalRuns = <<>>
    /\ races = 0
    /\ auditFails = FALSE
    /\ evalExpression \in VarNodes \cup ArithmeticNodes
    /\ evalData \in Snapshots
    /\ evalResult = Unevaluated

\* _evaluate(expression, data)
EvaluateStep ==
    /\ evalResult = Unevaluated
    /\ evalResult' = Evaluate(evalExpression, evalData)
    /\ UNCHANGED <<catalog, engine, evalExpression, evalData>>

NextEval == EvaluateStep

SpecEval == InitEval /\ [][NextEval]_vars

-----------------------------------------------------------------------------
(* The sweep's specification: check_timed_out_states as time passes, on    *)
(* the tables as the engine leaves them with two instances of the batch    *)
(* workflow (each in draft, in review since time 0, or in approved since   *)
(* time 0 on a request of qa1 approved by qa2) and two more approval       *)
(* requests, pending, rejected or escalated, each on either instance.      *)

SweepPlaces == {"draft", "review", "approved"}

\* the instance row the engine leaves in state s
SweepRow(s) ==
    [InstanceRow("batch", s, 0) EXCEPT !.state_deadline = DeadlineFor(s, 0)]

\* the history of that instance
SweepHistory(s) ==
    <<HistoryRow(None, "draft", None, "op", "workflow_started")>>
    \o (IF s = "draft" THEN <<>>
        ELSE <<HistoryRow("draft", "review", "submit", "op", "submit")>>)
    \o (IF s = "approved"
        THEN <<HistoryRow("review", "approved", "approve", "qa1", "approve")>>
        ELSE <<>>)

\* the request that brought instance i to approved, and its decision
SweepApproved(i) ==
    [RequestRow(i, "approve", "approve_rule", "qa1", NoTime)
        EXCEPT !.status = "approved"]

\* a further request on instance i in status st, and its decisions
SweepRequest(i, st) ==
    [RequestRow(i, "approve", "approve_rule", "op", NoTime)
        EXCEPT !.status = st]

SweepDecisions(st) ==
    IF st = "rejected" THEN <<DecisionRow("rejected", "qa1")>> ELSE <<>>

InitSweep ==
    /\ definitions = EngineDefinitions
    /\ states = EngineStates
    /\ transitions = EngineTransitions
    /\ rules = EngineRules(<<"single", 1>>)
    /\ \E place \in [1..2 -> SweepPlaces],
          on \in [1..2 -> 1..2],
          st \in [1..2 -> {"pending", "rejected", "escalated"}] :
          LET was == {i \in 1..2 : place[i] = "approved"}
              first == [k \in 1..2 |-> SweepRequest(on[k], st[k])]
              more == IF 1 \in was THEN <<SweepApproved(1)>> ELSE <<>>
              last == IF 2 \in was THEN <<SweepApproved(2)>> ELSE <<>>
          IN /\ \A k \in 1..2 : place[on[k]] # "draft"
             /\ instances = [i \in 1..2 |-> SweepRow(place[i])]
             /\ history = [i \in 1..2 |-> SweepHistory(place[i])]
             /\ executed = [i \in 1..2 |-> Len(SweepHistory(place[i])) - 1]
             /\ requests = first \o more \o last
             /\ decisions = [k \in 1..2 |-> SweepDecisions(st[k])]
                    \o [k \in 1..Len(more \o last) |->
                           <<DecisionRow("approved", "qa2")>>]
             /\ approvalRuns = [k \in 1..2 |-> 0]
                    \o [k \in 1..Len(more \o last) |-> 1]
    /\ now = 0
    /\ proc = [p \in Procs |-> IdleProc]
    /\ races = 0
    /\ auditFails = FALSE
    /\ evalExpression = Null
    /\ evalData = Null
    /\ evalResult = Null

NextSweep ==
    \/ CheckTimedOutStates
    \/ Tick

SpecSweep == InitSweep /\ [][NextSweep]_vars

-----------------------------------------------------------------------------
(* Helpers of the properties.                                              *)

\* the history rows of instance i that the step creates
Appended(i) == SubSeq(history'[i], Len(history[i]) + 1, Len(history'[i]))

\* the step leaves instance i's row and history as they are
Untouched(i) == instances'[i] = instances[i] /\ history'[i] = history[i]

\* handler p holds a stale copy: after it loaded instance i, another call
\* executed transition t and the instance has left t's source state
MovedBy(p, t) ==
    LET i == proc[p].inst IN
    /\ \E k \in (proc[p].seen + 1)..Len(history[i]) : history[i][k].transition = t
    /\ instances[i].current_state # transitions[t].from_state

-----------------------------------------------------------------------------
(* C1: of two concurrent execute_transition calls for the same instance    *)
(* and the same guard-passing transition without approval, one advances    *)
(* the state and appends a history entry; the other, run after the first   *)
(* has moved the instance, fails its guard check and appends nothing.      *)
C1_SecondCallFails ==
    [][\A p \in Procs :
          ( /\ ExecuteTransition(p)
            /\ ~transitions[proc[p].t].requires_approval
            /\ MovedBy(p, proc[p].t) )
          => /\ Untouched(proc[p].inst)
             /\ ~TransitionCall(p).ok
             /\ TransitionCall(p).msg = "Transition not available from current state"
      ]_vars

(* C2: an approval request whose policy one approval satisfies (single,    *)
(* any) has its transition executed at most once, also when two approvers  *)
(* decide concurrently.                                                    *)
C2_ApprovedTransitionRunsOnce ==
    \A r \in 1..Len(requests) :
        rules[requests[r].approval_rule].approval_type \in {"single", "any"}
        => approvalRuns[r] <= 1

(* C3: every instance has one history row for its start and one for each   *)
(* transition executed on it (directly, via an approval, an auto-transition*)
(* or a timeout); failed calls and calls that only create an approval      *)
(* request add none.                                                       *)
C3_HistoryCountsTransitions ==
    \A i \in 1..Len(instances) : Len(history[i]) = executed[i] + 1

\* an instance with three executed transitions, one of them via an approval
C3_Witness ==
    \E i \in 1..Len(instances) :
        /\ executed[i] >= 3
        /\ \E r \in 1..Len(requests) :
              requests[r].instance = i /\ approvalRuns[r] >= 1

-----------------------------------------------------------------------------
(* The execute_transition calls of a step, each with the instance, the     *)
(* transition and the user it is given and the engine it runs on.          *)

TimeoutCalls ==
    {i \in Handled :
        /\ states[instances[i].current_state].timeout_action = "transition"
        /\ TimeoutTransitions(Engine(i, instances[i])) # {}}

ForCalls(P(_, _, _, _)) ==
    /\ \A p \in Procs :
          ExecuteTransition(p)
          => P(proc[p].inst, proc[p].t, proc[p].user,
               Engine(proc[p].inst, proc[p].row))
    /\ \A p \in Procs :
          (ProcessApproval(p) /\ ApprovalBranch(p) = "execute")
          => P(proc[p].inst, requests[proc[p].req].transition,
               requests[proc[p].req].requested_by,
               Engine(proc[p].inst, proc[p].row))
    /\ CheckTimedOutStates
          => \A i \in TimeoutCalls :
                P(i, CHOOSE t \in TimeoutTransitions(Engine(i, instances[i])) : TRUE,
                  SystemUser, Engine(i, instances[i]))

\* the call changed the state only to t's to_state and only with its guards
\* passed
EndsInToState(i, t, user, e) ==
    /\ instances'[i].current_state # instances[i].current_state
       => /\ instances'[i].current_state = transitions[t].to_state
          /\ CanExecuteTransition(e, t, user)[1]
    /\ ~CanExecuteTransition(e, t, user)[1] => Untouched(i)

\* every state change of the call is, in the order of its history rows, to
\* the to_state of a transition taken from its from_state with the user's
\* guards passed: t first, from the state the engine was built on, then the
\* auto-transitions chained from it; the instance is left in the last one's
\* to_state; and nothing changes when t's guard check fails
EndsInChainToState(i, t, user, e) ==
    LET rows == Appended(i) IN
    /\ instances'[i] # instances[i] => rows # <<>>
    /\ rows # <<>> =>
          /\ rows[1].transition = t
          /\ rows[1].from_state = e.current_state
          /\ \A k \in 1..Len(rows) :
                /\ rows[k].from_state = transitions[rows[k].transition].from_state
                /\ rows[k].to_state = transitions[rows[k].transition].to_state
                /\ transitions[rows[k].transition].workflow = e.workflow
                /\ CanExecute(rows[k].transition, user)[1]
                /\ k > 1 => /\ rows[k].from_state = rows[k - 1].to_state
                            /\ states[rows[k].from_state].auto_transition_to
                                  = rows[k].to_state
          /\ instances'[i].current_state = rows[Len(rows)].to_state
    /\ ~CanExecuteTransition(e, t, user)[1] => Untouched(i)

(* C4 as stated: a call execute_transition(t, actor) that changes the      *)
(* current state leaves the instance in t.to_state, with the guard check   *)
(* passed; a call whose guard check fails changes nothing.                 *)
C4_CallEndsInToState == [][ForCalls(EndsInToState)]_vars

(* C4: a call execute_transition(t, actor) changes the current state only  *)
(* along the chain t, then the auto-transitions that follow it, each taken *)
(* from its from_state to its to_state with the guard check passed for the *)
(* same user, and leaves the instance in the to_state of the last          *)
(* transition of that chain; a call whose guard check fails changes nothing.*)
C4_CallEndsInChainToState == [][ForCalls(EndsInChainToState)]_vars

\* an approved transition was followed, in the same call, by the
\* auto-transition of the state it entered
C4_Witness ==
    \E i \in 1..Len(instances) : \E k \in 1..(Len(history[i]) - 1) :
        /\ history[i][k].transition = "approve"
        /\ history[i][k + 1].transition = "release"
        /\ instances[i].current_state = "released"

(* C5: process_approval with decision 'rejected' on a pending request sets *)
(* the request to rejected whatever approvals were recorded before and     *)
(* whatever the policy, runs no transition, and leaves the instance's row  *)
(* and history as they were.                                               *)
C5_RejectionVetoes ==
    [][\A p \in Procs :
          ( /\ ProcessApproval(p)
            /\ proc[p].decision = "rejected"
            /\ proc[p].req_status = "pending" )
          => /\ requests'[proc[p].req].status = "rejected"
             /\ Untouched(proc[p].inst)
             /\ executed' = executed
             /\ approvalRuns' = approvalRuns
             /\ ApprovalResult(p) = <<TRUE, "Approval request rejected">>
      ]_vars

\* a request rejected after an approval had been recorded on it
C5_Witness ==
    \E r \in 1..Len(requests) :
        /\ requests[r].status = "rejected"
        /\ Len(decisions[r]) = 2
        /\ decisions[r][1].decision = "approved"
        /\ decisions[r][2].decision = "rejected"
        /\ approvalRuns[r] = 0

(* C6: under policy 'single' or 'any', process_approval with the first     *)
(* 'approved' decision on a pending request without rejections sets the    *)
(* request to approved and calls execute_transition for the request's      *)
(* transition in the same call: when the transition's guard check passes   *)
(* on the engine, the history grows by rows that start with that           *)
(* transition, made in the requester's name.                               *)
C6_FirstApprovalTriggers ==
    [][\A p \in Procs :
          LET r == proc[p].req
              i == proc[p].inst
          IN ( /\ ProcessApproval(p)
               /\ proc[p].decision = "approved"
               /\ proc[p].req_status = "pending"
               /\ rules[requests[r].approval_rule].approval_type
                     \in {"single", "any"}
               /\ Count(decisions[r], "approved") = 0
               /\ Count(decisions[r], "rejected") = 0 )
             => /\ requests'[r].status = "approved"
                /\ decisions'[r] = Append(decisions[r],
                                          DecisionRow("approved", proc[p].user))
                /\ IF CanExecuteTransition(Engine(i, proc[p].row),
                          requests[r].transition, requests[r].requested_by)[1]
                   THEN /\ Appended(i) # <<>>
                        /\ Appended(i)[1].transition = requests[r].transition
                        /\ Appended(i)[1].triggered_by = requests[r].requested_by
                        /\ approvalRuns'[r] = approvalRuns[r] + 1
                   ELSE Untouched(i)
      ]_vars

\* a request under 'any' with min_approvals 2, approved and executed on its
\* only decision
C6_Witness ==
    \E r \in 1..Len(requests) :
        /\ rules[requests[r].approval_rule].approval_type = "any"
        /\ rules[requests[r].approval_rule].min_approvals = 2
        /\ requests[r].status = "approved"
        /\ Len(decisions[r]) = 1
        /\ approvalRuns[r] = 1

(* C7: under policy 'all', 'majority' or 'sequential' with min_approvals N,*)
(* process_approval on a pending request without rejections leaves the     *)
(* request pending while fewer than N approvals are recorded, and sets it  *)
(* to approved and executes its transition in the call that records the    *)
(* Nth approval.                                                           *)
C7_NthApprovalTriggers ==
    [][\A p \in Procs :
          LET r == proc[p].req
              rule == rules[requests[r].approval_rule]
              n == Count(DecisionsWith(p), "approved")
          IN ( /\ ProcessApproval(p)
               /\ proc[p].decision = "approved"
               /\ proc[p].req_status = "pending"
               /\ requests[r].status = "pending"
               /\ rule.approval_type \in {"all", "majority", "sequential"}
               /\ Count(decisions[r], "rejected") = 0 )
             => /\ n < rule.min_approvals
                   => requests'[r].status = "pending" /\ Untouched(proc[p].inst)
                /\ n = rule.min_approvals
                   => /\ requests'[r].status = "approved"
                      /\ ApprovalBranch(p) = "execute"
      ]_vars

(* C8: a step of activate makes a definition active only if the definition *)
(* has exactly one initial state and at least one terminal state.          *)
C8_ActivationValidates ==
    [][\A w \in DOMAIN definitions :
          Activate(w)
          => /\ Cardinality({s \in DOMAIN states :
                   states[s].workflow = w /\ states[s].is_initial}) = 1
             /\ TerminalStates(w) # {}
      ]_vars

(* C9: every execute_transition call that a handler is about to make       *)
(* returns after a chain of auto-transitions that ends of itself; none     *)
(* chains auto-transitions until the interpreter's stack is exhausted.     *)
C9_ChainEnds ==
    \A p \in Procs :
        (proc[p].pc = "loaded" /\ proc[p].op = "transition")
        => TransitionCall(p).outcome # "RecursionError"

(* C10: execute_transition, approval not skipped, for a transition that    *)
(* requires approval and has a rule, with the guard check passed, creates  *)
(* one pending request for (instance, transition, requester), returns      *)
(* success with 'Approval request created', and leaves the instance's row, *)
(* its history and the earlier requests as they were.                      *)
C10_ApprovalRequestCreated ==
    [][\A p \in Procs :
          LET i == proc[p].inst
              t == proc[p].t
          IN ( /\ ExecuteTransition(p)
               /\ transitions[t].requires_approval
               /\ FirstRule(t) # {}
               /\ CanExecuteTransition(Engine(i, proc[p].row), t, proc[p].user)[1] )
             => /\ Len(requests') = Len(requests) + 1
                /\ SubSeq(requests', 1, Len(requests)) = requests
                /\ LET new == requests'[Len(requests')] IN
                      /\ new.status = "pending"
                      /\ new.instance = i
                      /\ new.transition = t
                      /\ new.requested_by = proc[p].user
                      /\ new.approval_rule \in FirstRule(t)
                /\ decisions'[Len(requests')] = <<>>
                /\ Untouched(i)
                /\ executed' = executed
                /\ TransitionCall(p).ok
                /\ TransitionCall(p).msg = "Approval request created"
      ]_vars

\* a pending request without decisions on an instance that is still in the
\* transition's source state, with the history of before the call
C10_Witness ==
    \E r \in 1..Len(requests) :
        /\ requests[r].status = "pending"
        /\ decisions[r] = <<>>
        /\ requests[r].transition = "approve"
        /\ instances[requests[r].instance].current_state = "review"
        /\ Len(history[requests[r].instance]) = 2
        /\ \A p \in Procs : proc[p].pc = "idle"

-----------------------------------------------------------------------------
(* C11: an execute_transition call without skip_approval for a transition  *)
(* that requires approval and has no approval rule, whose guard passes,    *)
(* ends with an error of its own (a ValueError, where a guard failure is   *)
(* returned as a value), and creates no request, moves no instance and     *)
(* appends no history.                                                     *)
C11_NoRuleAborts ==
    [][\A p \in Procs :
          ( /\ ExecuteTransition(p)
            /\ transitions[proc[p].t].requires_approval
            /\ FirstRule(proc[p].t) = {}
            /\ CanExecuteTransition(Engine(proc[p].inst, proc[p].row),
                                    proc[p].t, proc[p].user)[1] )
          => /\ TransitionCall(p).outcome = "ValueError"
             /\ ~TransitionCall(p).ok
             /\ UNCHANGED <<instances, history, executed, requests, decisions>>
      ]_vars

\* a handler about to call execute_transition for such a transition
C11_Witness ==
    \E p \in Procs :
        /\ proc[p].pc = "loaded" /\ proc[p].op = "transition"
        /\ transitions[proc[p].t].requires_approval
        /\ FirstRule(proc[p].t) = {}
        /\ CanExecuteTransition(Engine(proc[p].inst, proc[p].row),
                                proc[p].t, proc[p].user)[1]
        /\ TransitionCall(p).outcome = "ValueError"

(* C12: an execute_transition call whose guard does not pass (wrong        *)
(* current state, transition of another workflow, missing permission or    *)
(* role, conditions not truthy, among them a comparison with a variable    *)
(* the record lacks) returns (false, reason, no request) without raising,  *)
(* and leaves the instance, its history and the approval requests as they  *)
(* are.                                                                    *)
C12_GuardFailureReturned ==
    [][\A p \in Procs :
          ( /\ ExecuteTransition(p)
            /\ ~CanExecuteTransition(Engine(proc[p].inst, proc[p].row),
                                     proc[p].t, proc[p].user)[1] )
          => /\ TransitionCall(p).outcome = "returned"
             /\ ~TransitionCall(p).ok
             /\ UNCHANGED <<instances, history, executed, requests, decisions>>
      ]_vars

(* C13: when recording the audit entry of a transition fails after the     *)
(* state change and the history row are written, the transition stays      *)
(* committed: execute_transition does not fail, the instance is in the     *)
(* transition's to_state and the history row is kept.                      *)
C13_AuditFailureKeepsTransition ==
    [][\A p \in Procs :
          ( /\ ExecuteTransition(p)
            /\ auditFails
            /\ ~transitions[proc[p].t].requires_approval
            /\ CanExecuteTransition(Engine(proc[p].inst, proc[p].row),
                                    proc[p].t, proc[p].user)[1] )
          => /\ TransitionCall(p).outcome = "returned"
             /\ TransitionCall(p).ok
             /\ Appended(proc[p].inst) # <<>>
             /\ instances'[proc[p].inst].current_state
                   = transitions[proc[p].t].to_state
      ]_vars

(* C14: the sweep's handling of a timed-out instance never interleaves     *)
(* with a user's execute_transition on the same instance: of a timeout     *)
(* transition and a user's transition racing from the state both observed  *)
(* only one is taken and one history row is appended for that state, so no *)
(* row of the sweep and row of a user that follow each other start from    *)
(* the same state (no transition of the catalogue is a loop on one state). *)
C14_SweepExcludesUser ==
    \A i \in 1..Len(history) :
        \A k \in 1..(Len(history[i]) - 1) :
            (history[i][k].triggered_by = SystemUser)
                # (history[i][k + 1].triggered_by = SystemUser)
            => history[i][k + 1].from_state # history[i][k].from_state

-----------------------------------------------------------------------------
(* C15: new_version on a definition D yields a new definition in status    *)
(* draft with version D.version + 1 and parent_version D, whose states,    *)
(* transitions (endpoints remapped to the copied states), auto-transition  *)
(* targets and approval rules correspond one-to-one to those of D; D and   *)
(* its states, transitions and approval rules are left as they are.        *)
C15_NewVersionCopies ==
    \A w \in DOMAIN definitions :
        LET r == NewVersionResult(w)
            n == NewId(w)
        IN /\ r.outcome = "created"
           /\ n \in DOMAIN r.definitions
           /\ r.definitions[n].status = "draft"
           /\ r.definitions[n].version = definitions[w].version + 1
           /\ r.definitions[n].parent_version = w
           /\ \A s \in DOMAIN states :
                 states[s].workflow = w
                 => /\ NewId(s) \in DOMAIN r.states
                    /\ r.states[NewId(s)] =
                          [states[s] EXCEPT
                              !.workflow = n,
                              !.auto_transition_to =
                                  IF @ = None THEN None ELSE NewId(@)]
           /\ \A t \in DOMAIN transitions :
                 transitions[t].workflow = w
                 => /\ NewId(t) \in DOMAIN r.transitions
                    /\ r.transitions[NewId(t)] =
                          [transitions[t] EXCEPT !.workflow = n,
                                                 !.from_state = NewId(@),
                                                 !.to_state = NewId(@)]
           /\ \A x \in DOMAIN rules :
                 transitions[rules[x].transition].workflow = w
                 => /\ NewId(x) \in DOMAIN r.rules
                    /\ r.rules[NewId(x)] =
                          [rules[x] EXCEPT !.transition = NewId(@)]
           /\ \A d \in DOMAIN definitions : r.definitions[d] = definitions[d]
           /\ \A s \in DOMAIN states : r.states[s] = states[s]
           /\ \A t \in DOMAIN transitions : r.transitions[t] = transitions[t]
           /\ \A x \in DOMAIN rules : r.rules[x] = rules[x]

(* C16: the status of a definition moves only along draft -> active ->     *)
(* deprecated: activate is rejected unless the status is draft, deprecate  *)
(* unless it is active, and a rejected call leaves the status as it is, so *)
(* every change of a status is from draft to active or from active to      *)
(* deprecated.                                                             *)
C16_StatusLifecycle ==
    [][\A w \in DOMAIN definitions :
          definitions'[w].status # definitions[w].status
          => <<definitions[w].status, definitions'[w].status>>
                \in {<<"draft", "active">>, <<"active", "deprecated">>}
      ]_vars

-----------------------------------------------------------------------------
(* The var node that was evaluated: its path, its default, and the value   *)
(* the snapshot holds at the path.                                         *)

IsVarNode ==
    /\ evalResult # Unevaluated
    /\ evalExpression.k = "expr"
    /\ evalExpression.v[1] = "var"

VarPath == evalExpression.v[2][1].v

VarDefault ==
    IF Len(evalExpression.v[2]) > 1 THEN evalExpression.v[2][2] ELSE Null

\* a segment of the path is absent
Absent == [k |-> "absent", v |-> 0]

\* the value reached from `value` through the segments `parts`, each being
\* a key of a dict or an attribute of an object
RECURSIVE At(_, _)
At(value, parts) ==
    IF parts = <<>> THEN value
    ELSE IF value.k \in {"dict", "obj"}
            /\ Spelt(DOMAIN value.v, Head(parts)) # {}
    THEN At(value.v[CHOOSE n \in Spelt(DOMAIN value.v, Head(parts)) : TRUE],
            Tail(parts))
    ELSE Absent

\* the value of the snapshot at the path of the var node (the empty path
\* has no segment)
AtPath == At(evalData, IF VarPath = <<>> THEN <<>> ELSE Split(VarPath))

(* C17 as stated: a var node evaluates to the value at its path when every *)
(* segment is present, and to its default (null when it has none)          *)
(* otherwise; it never raises.                                             *)
C17_VarValueOrDefault ==
    IsVarNode
    => /\ ~IsRaise(evalResult)
       /\ evalResult = IF AtPath # Absent THEN AtPath ELSE VarDefault

(* C17: a var node evaluates to the value at its path when every segment   *)
(* is present with a value other than null on the way and at the end, and  *)
(* to its default (null when it has none) when a segment is absent or a    *)
(* value on the path is null; it never raises.                             *)
C17_VarNonNullValueOrDefault ==
    IsVarNode
    => /\ ~IsRaise(evalResult)
       /\ evalResult = IF AtPath \notin {Absent, Null} THEN AtPath
                       ELSE VarDefault

\* the var node "a.b" with default 5 evaluated to 5 on a snapshot whose
\* value at a.b is null
C17_Witness ==
    /\ IsVarNode
    /\ VarPath = <<"a", ".", "b">>
    /\ AtPath = Null
    /\ VarDefault = Integer(5)
    /\ evalResult = Integer(5)

-----------------------------------------------------------------------------
(* The arithmetic node that was evaluated and the values of its operands.  *)

IsArithmeticNode ==
    /\ evalResult # Unevaluated
    /\ evalExpression.k = "expr"
    /\ evalExpression.v[1] \in ArithmeticOperators

OperandValues ==
    [i \in 1..Len(evalExpression.v[2]) |->
        Evaluate(evalExpression.v[2][i], evalData)]

(* C18: a division node whose divisor evaluates to 0 evaluates to null and *)
(* raises no error, whatever its dividend evaluates to.                    *)
C18_DivisionByZeroIsNull ==
    ( /\ IsArithmeticNode
      /\ evalExpression.v[1] = "/"
      /\ OperandValues[2] = Integer(0) )
    => evalResult = Null

\* 10 / 0 evaluated to null
C18_Witness ==
    /\ IsArithmeticNode
    /\ evalExpression.v[1] = "/"
    /\ OperandValues[2] = Integer(0)
    /\ OperandValues[1] = Integer(10)
    /\ evalResult = Null

(* C19: an arithmetic node (+, -, *, /) with an operand that evaluates to  *)
(* a value that is no number (null, a string, a list) evaluates to null    *)
(* and raises no error.                                                    *)
C19_NonNumericIsNull ==
    ( /\ IsArithmeticNode
      /\ \E i \in DOMAIN OperandValues :
            OperandValues[i].k \in {"null", "str", "list"} )
    => evalResult = Null

-----------------------------------------------------------------------------
(* C20: a process_approval call on a request whose status is not pending   *)
(* returns (false, message), appends no decision, and leaves the request's *)
(* status, the instance and its history as they are.                       *)
C20_NonPendingRejected ==
    [][\A p \in Procs :
          ( /\ ProcessApproval(p)
            /\ proc[p].req_status # "pending" )
          => /\ ApprovalResult(p) = <<FALSE, "Approval request is not pending">>
             /\ UNCHANGED <<decisions, requests, instances, history, executed,
                            approvalRuns>>
      ]_vars

\* a decide handler about to call process_approval on an approved request
C20_Witness ==
    \E p \in Procs :
        /\ proc[p].pc = "loaded" /\ proc[p].op = "decide"
        /\ proc[p].req_status = "approved"
        /\ requests[proc[p].req].status = "approved"
        /\ ApprovalResult(p)[1] = FALSE

-----------------------------------------------------------------------------
(* C21: when a decision makes the rule's policy satisfied, process_approval*)
(* sets the request to approved, calls execute_transition for the          *)
(* request's transition as the original requester with skip_approval set,  *)
(* and returns the (ok, message) of that call; what the step writes to the *)
(* instance and its history is what that call writes.                      *)
C21_SatisfiedPolicyExecutes ==
    [][\A p \in Procs :
          ( /\ ProcessApproval(p)
            /\ proc[p].req_status = "pending"
            /\ Count(DecisionsWith(p), "rejected") = 0
            /\ PolicySatisfied(rules[requests[proc[p].req].approval_rule],
                               Count(DecisionsWith(p), "approved")) )
          => LET r == proc[p].req
                 i == proc[p].inst
                 run == RunTransition(Engine(i, proc[p].row),
                                      requests[r].transition,
                                      requests[r].requested_by, TRUE, now)
             IN /\ requests'[r].status = "approved"
                /\ ApprovalResult(p) = <<run.ok, run.msg>>
                /\ run.effect = "moved"
                      => /\ instances'[i] = run.engine.instance
                         /\ Appended(i) = run.engine.appended
                         /\ \A k \in DOMAIN Appended(i) :
                               Appended(i)[k].triggered_by
                                   = requests[r].requested_by
                /\ run.effect # "moved" => Untouched(i)
      ]_vars

\* an approved request whose transition was executed as its requester, by a
\* user other than the requester
C21_Witness ==
    \E r \in 1..Len(requests) :
        /\ requests[r].status = "approved"
        /\ approvalRuns[r] >= 1
        /\ \E k \in DOMAIN history[requests[r].instance] :
              /\ history[requests[r].instance][k].transition
                    = requests[r].transition
              /\ history[requests[r].instance][k].triggered_by
                    = requests[r].requested_by
        /\ \E k \in DOMAIN decisions[r] :
              decisions[r][k].decided_by # requests[r].requested_by

-----------------------------------------------------------------------------
(* C22: check_timed_out_states processes exactly the instances that are    *)
(* active with a state_deadline earlier than now.  For such an instance    *)
(* whose state's timeout action is 'escalate', each of its pending         *)
(* requests becomes escalated and the instance and its history stay as     *)
(* they are; requests in another status, requests of instances the sweep   *)
(* does not escalate, and instances it does not process are unchanged.     *)
Selected(i) ==
    /\ instances[i].status = "active"
    /\ instances[i].state_deadline # NoTime
    /\ instances[i].state_deadline < now

Escalates(i) ==
    /\ Selected(i)
    /\ states[instances[i].current_state].timeout_action = "escalate"

C22_SweepEscalatesPending ==
    [][CheckTimedOutStates
       => /\ \A i \in 1..Len(instances) :
                (Escalates(i) \/ ~Selected(i)) => Untouched(i)
          /\ \A r \in 1..Len(requests) :
                requests'[r] =
                    IF Escalates(requests[r].instance)
                       /\ requests[r].status = "pending"
                    THEN [requests[r] EXCEPT !.status = "escalated"]
                    ELSE requests[r]
      ]_vars

\* a sweep has escalated a request of one instance and left a pending
\* request of the other instance pending
C22_Witness ==
    \E r, q \in 1..Len(requests) :
        /\ requests[r].status = "escalated"
        /\ requests[q].status = "pending"
        /\ requests[q].instance # requests[r].instance
        /\ instances[requests[r].instance].current_state = "review"
        /\ instances[requests[r].instance].state_deadline < now
        /\ instances[requests[q].instance].current_state = "released"

-----------------------------------------------------------------------------
(* C23: after every executed transition the instance's state_deadline is   *)
(* the time of the transition plus the new state's timeout when the new    *)
(* state has one, and null when it has none; state_entered_at is the time  *)
(* of the transition.                                                      *)
C23_DeadlineFollowsState ==
    [][\A i \in 1..Len(instances) :
          Len(history'[i]) > Len(history[i])
          => LET new == instances'[i].current_state IN
             /\ new = history'[i][Len(history'[i])].to_state
             /\ instances'[i].state_entered_at = now
             /\ instances'[i].state_deadline =
                   IF states[new].timeout_hours > 0
                   THEN now + states[new].timeout_hours
                   ELSE NoTime
      ]_vars

\* an instance that entered review (timeout 1) and was returned to draft (no
\* timeout) at a later time: its deadline is cleared
C23_Witness ==
    \E i \in 1..Len(instances) :
        /\ Len(history[i]) = 3
        /\ history[i][2].to_state = "review"
        /\ history[i][3].to_state = "draft"
        /\ instances[i].current_state = "draft"
        /\ instances[i].state_entered_at > 0
        /\ instances[i].state_deadline = NoTime

-----------------------------------------------------------------------------
(* C24: every executed transition whose target state is terminal leaves    *)
(* the instance with status completed; an executed transition whose target *)
(* state is not terminal leaves the status as it was.                      *)
C24_StatusFollowsTerminal ==
    [][\A i \in 1..Len(instances) :
          Len(history'[i]) > Len(history[i])
          => LET rows == Appended(i) IN
             instances'[i].status =
                 IF \E k \in DOMAIN rows : states[rows[k].to_state].is_terminal
                 THEN "completed"
                 ELSE instances[i].status
      ]_vars

-----------------------------------------------------------------------------
(* The engine on a third catalogue: a workflow whose initial state has a   *)
(* timeout, whose terminal state has an outgoing transition, and one of    *)
(* whose transitions is switched off (no constraint of the schema excludes *)
(* any of the three).                                                      *)

TicketDefinitions ==
    ( "ticket" :> DefinitionRow("ticket", "active", 1, None) )

TicketStates ==
    ( "open"   :> [StateRow("ticket") EXCEPT !.is_initial = TRUE,
                                              !.timeout_hours = 1,
                                              !.timeout_action = "transition"] )
 @@ ( "closed" :> [StateRow("ticket") EXCEPT !.is_terminal = TRUE] )

TicketTransitions ==
    ( "renew"  :> TransitionRow("ticket", "renew", "open", "open", 0) )
 @@ ( "sign"   :> [TransitionRow("ticket", "sign", "open", "closed", 1)
                      EXCEPT !.requires_approval = TRUE] )
 @@ ( "skip"   :> [TransitionRow("ticket", "skip", "open", "closed", 2)
                      EXCEPT !.is_active = FALSE] )
 @@ ( "close_timeout" :>
          TransitionRow("ticket", "close_timeout", "open", "closed", 3) )
 @@ ( "reopen" :> TransitionRow("ticket", "reopen", "closed", "open", 0) )

TicketRules == ( "sign_rule" :> RuleRow("sign", "single", 1) )

InitTicket ==
    /\ definitions = TicketDefinitions
    /\ states = TicketStates
    /\ transitions = TicketTransitions
    /\ rules = TicketRules
    /\ instances = <<>>
    /\ history = <<>>
    /\ requests = <<>>
    /\ decisions = <<>>
    /\ now = 0
    /\ proc = [p \in Procs |-> IdleProc]
    /\ executed = <<>>
    /\ approvalRuns = <<>>
    /\ races = 0
    /\ auditFails = FALSE
    /\ evalExpression = Null
    /\ evalData = Null
    /\ evalResult = Null

SpecTicket == InitTicket /\ [][Next]_vars

-----------------------------------------------------------------------------
(* C25: once an instance's status is completed (or cancelled or            *)
(* suspended), no execute_transition, process_approval or                  *)
(* check_timed_out_states operation changes its current state or appends   *)
(* a StateHistory entry, even when the state it sits in has outgoing       *)
(* transitions that pass the guard.  Checked for the calls of handlers    *)
(* that loaded the instance with such a status.                            *)
C25_ClosedInstanceFrozen ==
    [][\A p \in Procs :
          /\ proc[p].pc = "loaded"
          /\ proc'[p].pc # "loaded"
          /\ proc[p].row.status \in {"completed", "cancelled", "suspended"}
          => /\ instances'[proc[p].inst].current_state = proc[p].row.current_state
             /\ history'[proc[p].inst] = history[proc[p].inst]
      ]_vars

-----------------------------------------------------------------------------
(* C26: in every reachable state, an approval request with status approved *)
(* has had its transition executed: the history of its instance contains   *)
(* an entry for the request's transition appended by the process_approval  *)
(* call that approved it.                                                  *)
C26_ApprovedRequestExecuted ==
    \A r \in 1..Len(requests) :
        requests[r].status = "approved"
        => /\ approvalRuns[r] >= 1
           /\ \E k \in DOMAIN history[requests[r].instance] :
                 history[requests[r].instance][k].transition
                     = requests[r].transition

-----------------------------------------------------------------------------
(* C27: for every instance, after any sequence of operations, the history  *)
(* ordered by creation is a connected path: the first entry has no         *)
(* from_state and leads to the initial state of the definition, each later *)
(* entry starts from the state the preceding entry leads to, and the last  *)
(* entry leads to the current state of the instance.                       *)
C27_HistoryIsPath ==
    \A i \in 1..Len(instances) :
        LET h == history[i] IN
        /\ Len(h) >= 1
        /\ h[1].from_state = None
        /\ h[1].to_state \in InitialStates(instances[i].workflow)
        /\ \A k \in 2..Len(h) : h[k].from_state = h[k - 1].to_state
        /\ h[Len(h)].to_state = instances[i].current_state

-----------------------------------------------------------------------------
(* C28: a transition with is_active = false is never executed: no          *)
(* execute_transition, auto-transition or timeout call that names it       *)
(* changes the state of the instance or appends history.                   *)
C28_InactiveNeverExecuted ==
    [][\A i \in 1..Len(instances) :
          Len(history'[i]) > Len(history[i])
          => \A k \in DOMAIN Appended(i) :
                transitions[Appended(i)[k].transition].is_active
      ]_vars

-----------------------------------------------------------------------------
(* C29: for a rule with min_approvals = N > 1, the approvals that satisfy  *)
(* the threshold come from N distinct approvers: repeated 'approved'       *)
(* decisions by the same user on one pending request count once, so a      *)
(* single user never brings a request to approved alone.  Stated for the   *)
(* approval type that reads the threshold ('all').                         *)
C29_DistinctApprovers ==
    \A r \in 1..Len(requests) :
        LET rule == rules[requests[r].approval_rule] IN
        /\ requests[r].status = "approved"
        /\ rule.approval_type = "all"
        /\ rule.min_approvals > 1
        => Cardinality({decisions[r][k].decided_by :
                           k \in {j \in DOMAIN decisions[r] :
                                     decisions[r][j].decision = "approved"}})
              >= rule.min_approvals

-----------------------------------------------------------------------------
(* C30: in every reachable state, including immediately after              *)
(* start_workflow, an active instance whose current state has a timeout    *)
(* has a non-null state_deadline, so that a check_timed_out_states run     *)
(* after the timeout has elapsed selects it.                               *)
C30_TimeoutStateHasDeadline ==
    \A i \in 1..Len(instances) :
        /\ instances[i].status = "active"
        /\ states[instances[i].current_state].timeout_hours > 0
        => instances[i].state_deadline # NoTime

====
